---- MODULE Spec2Model ----
(***************************************************************************)
(* histolab: binary masks (masks.py) and tile scorers (scorer.py).         *)
(*                                                                         *)
(* BiggestTissueBoxMask._mask and TissueMask._mask are each wrapped by     *)
(* functools.lru_cache(maxsize=100).  The decorator is applied to the      *)
(* function in the class body, so there is one cache per class, shared by  *)
(* every instance, keyed by the positional arguments (self, slide).        *)
(* A thumbnail is modelled as one row of pixels; its tissue mask is a row  *)
(* of 0/1 of the same width.                                               *)
(***************************************************************************)
EXTENDS Integers, Sequences, FiniteSets

VARIABLES
    thumbnail,   \* slide -> tissue mask of its thumbnail (what the tissue filters give)
    cache,       \* class -> lru_cache of its _mask: entries, least recently used first
    pc,          \* thread -> "idle" | "computing" (inside the wrapped _mask)
    call,        \* thread -> arguments of the call it is in
    ret,         \* the call that finished last: arguments and outcome
    runs,        \* key -> pipeline runs that produced a mask since the key was last evicted
    regionsArg,  \* _regions: the list of regions passed
    nArg,        \* _regions: n
    regionsRet,  \* _regions: outcome
    tile,        \* NucleiScorer: the tile scored
    scoreRet     \* NucleiScorer: outcome

vars == <<thumbnail, cache, pc, call, ret, runs, regionsArg, nArg, regionsRet, tile, scoreRet>>

maskVars == <<thumbnail, cache, pc, call, ret, runs>>
regionVars == <<regionsArg, nArg, regionsRet>>
scoreVars == <<tile, scoreRet>>

----------------------------------------------------------------------------
(* Bounds *)

NumSlides == 2      \* slides the callers hold
NumThreads == 2     \* calling threads
MaxRegions == 3     \* longest region list given to _regions
MaxArea == 2        \* largest region area given to _regions
MaxPixels == 3      \* largest tile, in pixels
TissueSteps == 2    \* tissue ratio takes the values k / TissueSteps
TanhTerms == 6      \* terms of the exponential series behind tanh

(* Program constant *)

maxsize == 100      \* lru_cache(maxsize=100)

----------------------------------------------------------------------------
(* Values *)

Slides == 1..NumSlides
Threads == 1..NumThreads

\* Tissue masks of the thumbnails the slides are drawn from: blank, two
\* regions with the bigger one last, two regions of equal area.
Thumbnails == { <<0, 0, 0, 0>>, <<1, 0, 1, 1>>, <<1, 0, 0, 1>> }

Classes == {"BiggestTissueBoxMask", "TissueMask"}

\* Strategy objects: one instance of each class.
Strategies ==
    { [cls |-> "BiggestTissueBoxMask", id |-> 1],
      [cls |-> "TissueMask", id |-> 1] }

\* slide.thumbnail followed by the tissue-mask filters; the slides above
\* NumSlides are slides of earlier calls that no caller holds any more
TissueFilters(slide) ==
    IF slide \in Slides THEN thumbnail[slide] ELSE <<1, 1, 1, 1>>

NoArgs == [self |-> [cls |-> "none", id |-> 0], slide |-> 0]
NoRet == [self |-> [cls |-> "none", id |-> 0], slide |-> 0,
          raised |-> "none", value |-> <<>>, hit |-> FALSE]

----------------------------------------------------------------------------
(* BiggestTissueBoxMask._regions *)

\* sorted(..., key=lambda r: r.area, reverse=True): stable, so regions of
\* equal area keep the order they have in the input.
\* as InsertByArea with reverse=False
InsertByAreaAscending(s, r) ==
    LET pos == Cardinality({i \in DOMAIN s : s[i].area <= r.area})
    IN  SubSeq(s, 1, pos) \o <<r>> \o SubSeq(s, pos + 1, Len(s))

InsertByArea(s, r) ==
    LET pos == Cardinality({i \in DOMAIN s : s[i].area >= r.area})
    IN  SubSeq(s, 1, pos) \o <<r>> \o SubSeq(s, pos + 1, Len(s))

RECURSIVE SortedByArea(_)
SortedByArea(regions) ==
    IF regions = <<>> THEN <<>>
    ELSE InsertByArea(SortedByArea(SubSeq(regions, 1, Len(regions) - 1)),
                      regions[Len(regions)])

\* as _regions without the check of n against len(regions): the slice clamps
_regionsClamped(regions, n) ==
    IF n < 1 THEN [raised |-> "ValueError", value |-> <<>>]
    ELSE [raised |-> "none",
          value |-> SubSeq(SortedByArea(regions), 1,
                           IF n > Len(regions) THEN Len(regions) ELSE n)]

_regions(regions, n) ==
    IF n < 1 THEN [raised |-> "ValueError", value |-> <<>>]
    ELSE IF n > Len(regions) THEN [raised |-> "ValueError", value |-> <<>>]
    ELSE [raised |-> "none", value |-> SubSeq(SortedByArea(regions), 1, n)]

----------------------------------------------------------------------------
(* Region helpers of histolab.util, on a one-row mask *)

RunStarts(mask) ==
    {i \in DOMAIN mask : mask[i] = 1 /\ (i = 1 \/ mask[i - 1] = 0)}

RunEnd(mask, lo) ==
    CHOOSE j \in lo..Len(mask) :
        /\ \A k \in lo..j : mask[k] = 1
        /\ (j = Len(mask) \/ mask[j + 1] = 0)

\* the i-th smallest element of a set of integers
RECURSIVE Nth(_, _)
Nth(S, i) ==
    LET m == CHOOSE x \in S : \A y \in S : x <= y
    IN  IF i = 1 THEN m ELSE Nth(S \ {m}, i - 1)

\* one Region per connected component, labelled in scan order
regions_from_binary_mask(mask) ==
    LET starts == RunStarts(mask)
    IN  [l \in 1..Cardinality(starts) |->
            LET lo == Nth(starts, l)
                hi == RunEnd(mask, lo)
            IN  [label |-> l, area |-> hi - lo + 1, bbox |-> <<lo, hi>>]]

region_coordinates(region) == region.bbox

polygon_to_mask_array(size, coords) ==
    [i \in 1..size |-> IF coords[1] <= i /\ i <= coords[2] THEN 1 ELSE 0]

----------------------------------------------------------------------------
(* The wrapped functions: one direct, uncached run of the pipeline *)

\* as BiggestTissueBoxMask_mask with an empty mask for a slide without regions
BiggestTissueBoxMask_maskDefault(slide) ==
    LET thumb_mask == TissueFilters(slide)
        regions == regions_from_binary_mask(thumb_mask)
    IN  IF regions = <<>>
        THEN [raised |-> "none", value |-> [i \in DOMAIN thumb_mask |-> 0]]
        ELSE [raised |-> "none",
              value |-> polygon_to_mask_array(Len(thumb_mask),
                            region_coordinates(_regions(regions, 1).value[1]))]

BiggestTissueBoxMask_mask(slide) ==
    LET thumb_mask == TissueFilters(slide)
        regions == regions_from_binary_mask(thumb_mask)
        top == _regions(regions, 1)
    IN  IF top.raised # "none"
        THEN [raised |-> top.raised, value |-> <<>>]
        ELSE [raised |-> "none",
              value |-> polygon_to_mask_array(Len(thumb_mask),
                                              region_coordinates(top.value[1]))]

TissueMask_mask(slide) ==
    [raised |-> "none", value |-> TissueFilters(slide)]

_mask(self, slide) ==
    IF self.cls = "BiggestTissueBoxMask"
    THEN BiggestTissueBoxMask_mask(slide)
    ELSE TissueMask_mask(slide)

----------------------------------------------------------------------------
(* functools.lru_cache *)

\* as make_key with the slide left out of the key
make_keySelfOnly(self, slide) == <<self, 0>>

\* _make_key: the positional arguments
make_key(self, slide) == <<self, slide>>

Positions(c, key) == {i \in DOMAIN cache[c] : cache[c][i].key = key}

InCache(c, key) == Positions(c, key) # {}

\* as cache_get finding nothing
cache_getMiss(c, key) == [found |-> FALSE, cached |-> <<>>]

\* cache_get(key)
cache_get(c, key) ==
    IF InCache(c, key)
    THEN [found |-> TRUE,
          cached |-> cache[c][CHOOSE i \in Positions(c, key) : TRUE].result]
    ELSE [found |-> FALSE, cached |-> <<>>]

Without(s, i) == SubSeq(s, 1, i - 1) \o SubSeq(s, i + 1, Len(s))

\* a hit moves the entry to the most recently used end
MoveToFront(c, key) ==
    LET i == CHOOSE j \in Positions(c, key) : TRUE
    IN  Append(Without(cache[c], i), cache[c][i])

\* after the wrapped function returned: keep the entry another thread stored
\* meanwhile, else store, dropping the least recently used entry when full
Stored(c, key, result) ==
    IF InCache(c, key) THEN cache[c]
    ELSE IF Len(cache[c]) >= maxsize
         THEN Append(Tail(cache[c]), [key |-> key, result |-> result])
         ELSE Append(cache[c], [key |-> key, result |-> result])

\* the key the store drops, if any
Evicted(c, key) ==
    IF ~InCache(c, key) /\ Len(cache[c]) >= maxsize
    THEN {cache[c][1].key} ELSE {}

\* as AfterCall storing the outcome of a call that raised as well
AfterCallAlwaysStores(c, key, out) == Stored(c, key, out.value)

\* the wrapper after the call of the wrapped function: an exception leaves
\* the wrapper before the store, a result is stored
AfterCall(c, key, out) ==
    IF out.raised # "none" THEN cache[c] ELSE Stored(c, key, out.value)

NamedKeys == {make_key(s, sl) : s \in Strategies, sl \in Slides}

----------------------------------------------------------------------------
(* BinaryMask.__call__ *)

\* __call__ -> the lru_cache wrapper: look the key up; a hit returns at once
Call(t, self, slide) ==
    LET c == self.cls
        key == make_key(self, slide)
        got == cache_get(c, key)
    IN  /\ pc[t] = "idle"
        /\ IF got.found
           THEN /\ cache' = [cache EXCEPT ![c] = MoveToFront(c, key)]
                /\ ret' = [self |-> self, slide |-> slide,
                           raised |-> "none", value |-> got.cached, hit |-> TRUE]
                /\ UNCHANGED <<pc, call>>
           ELSE /\ pc' = [pc EXCEPT ![t] = "computing"]
                /\ call' = [call EXCEPT ![t] = [self |-> self, slide |-> slide]]
                /\ UNCHANGED <<cache, ret>>
        /\ UNCHANGED <<thumbnail, runs, regionVars, scoreVars>>

\* the wrapped _mask finishes: an exception passes through the wrapper and
\* nothing is stored; a result is stored and returned
Return(t) ==
    LET self == call[t].self
        c == self.cls
        key == make_key(self, call[t].slide)
        out == _mask(self, call[t].slide)
    IN  /\ pc[t] = "computing"
        /\ pc' = [pc EXCEPT ![t] = "idle"]
        /\ call' = [call EXCEPT ![t] = NoArgs]
        /\ ret' = [self |-> self, slide |-> call[t].slide,
                   raised |-> out.raised, value |-> out.value, hit |-> FALSE]
        /\ cache' = [cache EXCEPT ![c] = AfterCall(c, key, out)]
        /\ IF out.raised # "none"
           THEN runs' = runs
           ELSE runs' = [k \in NamedKeys |->
                           IF k \in Evicted(c, key) THEN 0
                           ELSE IF k = key THEN runs[k] + 1
                           ELSE runs[k]]
        /\ UNCHANGED <<thumbnail, regionVars, scoreVars>>

----------------------------------------------------------------------------
(* NucleiScorer.__call__ *)

\* np.count_nonzero
count_nonzero(mask) == Cardinality({i \in DOMAIN mask : mask[i] # 0})

\* histolab.filters.util.mask_difference: on in the minuend and off in the
\* subtrahend
mask_difference(minuend, subtrahend) ==
    [i \in DOMAIN minuend |-> IF minuend[i] = 1 /\ subtrahend[i] = 0 THEN 1 ELSE 0]

RECURSIVE Pow(_, _)
Pow(b, e) == IF e = 0 THEN 1 ELSE b * Pow(b, e - 1)

\* hi! / lo! for lo <= hi
RECURSIVE FactRatio(_, _)
FactRatio(hi, lo) == IF hi = lo THEN 1 ELSE hi * FactRatio(hi - 1, lo)

\* np.tanh(k / TissueSteps) as a fraction: (e^2x - 1) / (e^2x + 1), with e^2x
\* the first TanhTerms + 1 terms of its series over the common denominator
ExpDen == Pow(TissueSteps, TanhTerms) * FactRatio(TanhTerms, 0)

RECURSIVE ExpNum(_, _)
ExpNum(k, i) ==
    Pow(2 * k, i) * Pow(TissueSteps, TanhTerms - i) * FactRatio(TanhTerms, i)
    + (IF i = 0 THEN 0 ELSE ExpNum(k, i - 1))

tanh(k) ==
    [num |-> ExpNum(k, TanhTerms) - ExpDen, den |-> ExpNum(k, TanhTerms) + ExpDen]

\* as NucleiScorer_call weighting by the tissue ratio itself, without tanh
NucleiScorer_callLinear(t) ==
    LET mask_nuclei == mask_difference(t.raw, t.clean)
        size == Len(mask_nuclei)
    IN  IF size = 0
        THEN [raised |-> "ZeroDivisionError", num |-> 0, den |-> 1]
        ELSE [raised |-> "none",
              num |-> count_nonzero(mask_nuclei) * t.tissue,
              den |-> size * TissueSteps]

\* the score as the fraction num / den; int / int raises on a zero divisor
NucleiScorer_call(t) ==
    LET mask_nuclei == mask_difference(t.raw, t.clean)
        size == Len(mask_nuclei)
        th == tanh(t.tissue)
    IN  IF size = 0
        THEN [raised |-> "ZeroDivisionError", num |-> 0, den |-> 1]
        ELSE [raised |-> "none",
              num |-> count_nonzero(mask_nuclei) * th.num,
              den |-> size * th.den]

----------------------------------------------------------------------------
(* Initial states *)

RegionInitIdle ==
    regionsArg = <<>> /\ nArg = 1 /\ regionsRet = [raised |-> "none", value |-> <<>>]
ScoreInitIdle ==
    /\ tile = [raw |-> <<>>, clean |-> <<>>, tissue |-> 0]
    /\ scoreRet = [raised |-> "none", num |-> 0, den |-> 1]

Entry(key) == [key |-> key, result |-> _mask(key[1], key[2]).value]

\* The cache of class c after maxsize earlier calls on maxsize slides, the
\* oldest of them on slide 1, which is still held.
OldStrategy(c) == [cls |-> c, id |-> 1]
WarmCache(c) ==
    <<Entry(make_key(OldStrategy(c), 1))>> \o
    [i \in 1..(maxsize - 1) |-> Entry(make_key(OldStrategy(c), NumSlides + i))]

MaskInit ==
    /\ thumbnail \in [Slides -> Thumbnails]
    /\ \/ cache = [c \in Classes |-> <<>>]
       \/ \E w \in Classes :
             /\ _mask(OldStrategy(w), 1).raised = "none"
             /\ cache = [c \in Classes |-> IF c = w THEN WarmCache(w) ELSE <<>>]
    /\ pc = [t \in Threads |-> "idle"]
    /\ call = [t \in Threads |-> NoArgs]
    /\ ret = NoRet
    /\ runs = [k \in NamedKeys |-> IF InCache(k[1].cls, k) THEN 1 ELSE 0]

Init == MaskInit /\ RegionInitIdle /\ ScoreInitIdle

\* Calls one after the other: a call starts when no other call is running.
Next ==
    \E t \in Threads :
        \/ /\ \A u \in Threads : pc[u] = "idle"
           /\ \E self \in Strategies, slide \in Slides : Call(t, self, slide)
        \/ Return(t)

Spec == Init /\ [][Next]_vars

\* Calls from several threads at once.
NextThreads ==
    \E t \in Threads :
        \/ \E self \in Strategies, slide \in Slides : Call(t, self, slide)
        \/ Return(t)

SpecThreads == Init /\ [][NextThreads]_vars

----------------------------------------------------------------------------
(* _regions and NucleiScorer on their own: the arguments are drawn in the  *)
(* initial state and one call is made.                                     *)

MaskInitIdle ==
    /\ thumbnail = [s \in Slides |-> <<0, 0, 0, 0>>]
    /\ cache = [c \in Classes |-> <<>>]
    /\ pc = [t \in Threads |-> "idle"]
    /\ call = [t \in Threads |-> NoArgs]
    /\ ret = NoRet
    /\ runs = [k \in NamedKeys |-> 0]

\* region lists: every listing order of the labels, every choice of areas
RegionLists ==
    UNION { { [i \in 1..len |-> [label |-> lab[i], area |-> ar[i], bbox |-> <<1, ar[i]>>]] :
                lab \in {f \in [1..len -> 1..len] : \A i, j \in 1..len : f[i] = f[j] => i = j},
                ar \in [1..len -> 1..MaxArea] } :
            len \in 0..MaxRegions }

Pending == [raised |-> "pending", value |-> <<>>]

InitRegions ==
    /\ MaskInitIdle /\ ScoreInitIdle
    /\ regionsArg \in RegionLists
    /\ nArg \in (-1)..(MaxRegions + 1)
    /\ regionsRet = Pending

CallRegions ==
    /\ regionsRet = Pending
    /\ regionsRet' = _regions(regionsArg, nArg)
    /\ UNCHANGED <<maskVars, regionsArg, nArg, scoreVars>>

NextRegions == CallRegions

SpecRegions == InitRegions /\ [][NextRegions]_vars

Tiles ==
    UNION { [raw : [1..size -> {0, 1}], clean : [1..size -> {0, 1}],
             tissue : 0..TissueSteps] : size \in 0..MaxPixels }

ScorePending == [raised |-> "pending", num |-> 0, den |-> 1]

InitScorer ==
    /\ MaskInitIdle /\ RegionInitIdle
    /\ tile \in Tiles
    /\ scoreRet = ScorePending

CallScorer ==
    /\ scoreRet = ScorePending
    /\ scoreRet' = NucleiScorer_call(tile)
    /\ UNCHANGED <<maskVars, regionVars, tile>>

NextScorer == CallScorer

SpecScorer == InitScorer /\ [][NextScorer]_vars

----------------------------------------------------------------------------
(* Properties *)

RetKey == make_key(ret.self, ret.slide)
Returned == ret.self.cls # "none"
RetCached == InCache(ret.self.cls, RetKey)
CallKey(t) == make_key(call[t].self, call[t].slide)
CachedResult(c, key) == cache[c][CHOOSE i \in Positions(c, key) : TRUE].result

\* C1: in calls made one after the other, a key whose mask was computed is
\* served from the cache until it is evicted: the pipeline produces at most
\* one mask per key between two evictions of the key, no call runs the
\* pipeline for a key that is cached, and a hit returns the cached mask.
C1_ComputedOncePerKey ==
    /\ \A k \in NamedKeys : runs[k] <= 1
    /\ \A k \in NamedKeys : InCache(k[1].cls, k) => runs[k] = 1
    /\ \A t \in Threads : pc[t] = "computing" => ~InCache(call[t].self.cls, CallKey(t))
    /\ (Returned /\ ret.hit) =>
          /\ ret.raised = "none"
          /\ InCache(ret.self.cls, RetKey) => CachedResult(ret.self.cls, RetKey) = ret.value

\* a hit on slide 1 after its entry was evicted and computed again
C1_Witness ==
    /\ Returned /\ ret.hit /\ ret.slide = 1
    /\ runs[RetKey] = 1
    /\ Len(cache[ret.self.cls]) = maxsize
    /\ cache[ret.self.cls][1].key[2] = NumSlides + 2

\* C2: a mask returned, from the cache or freshly computed, is the mask one
\* direct run of the pipeline of that strategy on that slide gives.
C2_ReturnsDirectMask ==
    (Returned /\ ret.raised = "none") =>
        /\ _mask(ret.self, ret.slide).raised = "none"
        /\ ret.value = _mask(ret.self, ret.slide).value

\* a hit whose mask differs from the mask of another slide and from the mask
\* of the other strategy on the same slide
C2_Witness ==
    /\ Returned /\ ret.hit
    /\ \E sl \in Slides : InCache(ret.self.cls, make_key(ret.self, sl))
                          /\ _mask(ret.self, sl).value # ret.value
    /\ \E o \in Strategies : /\ o.cls # ret.self.cls
                             /\ InCache(o.cls, make_key(o, ret.slide))
                             /\ _mask(o, ret.slide).value # ret.value

\* C3: at most one computation of a key is in flight at any time.
C3_SingleFlight ==
    \A t, u \in Threads :
        (pc[t] = "computing" /\ pc[u] = "computing" /\ CallKey(t) = CallKey(u)) => t = u

\* C4: for 1 <= n <= len(regions), _regions returns n regions of the input,
\* sorted by area descending, none left out being larger than one returned.
C4_TopNSorted ==
    (regionsRet # Pending /\ 1 <= nArg /\ nArg <= Len(regionsArg)) =>
        LET out == regionsRet.value
            given == {regionsArg[i] : i \in DOMAIN regionsArg}
            taken == {out[i] : i \in DOMAIN out}
        IN  /\ regionsRet.raised = "none"
            /\ Len(out) = nArg
            /\ Cardinality(taken) = nArg
            /\ taken \subseteq given
            /\ \A i, j \in DOMAIN out : i < j => out[i].area >= out[j].area
            /\ \A r \in given \ taken : \A q \in taken : r.area <= q.area

\* two of three regions taken, the input not sorted already
C4_Witness ==
    /\ regionsRet # Pending /\ nArg = 2 /\ Len(regionsArg) = 3
    /\ regionsArg[1].area < regionsArg[2].area
    /\ regionsRet.value # SubSeq(regionsArg, 1, 2)

\* C5: for n < 1 and for n > len(regions), _regions raises ValueError and
\* returns no list.
C5_OutOfRangeRaises ==
    (regionsRet # Pending /\ (nArg < 1 \/ nArg > Len(regionsArg))) =>
        /\ regionsRet.raised = "ValueError"
        /\ regionsRet.value = <<>>

\* _regions([r1], 2) raised
C5_Witness ==
    /\ regionsRet.raised = "ValueError"
    /\ Len(regionsArg) = 1 /\ nArg = 2

\* C6: the regions selected and their order do not depend on the order in
\* which the regions are listed.
C6_OrderIndependent ==
    (regionsRet # Pending /\ regionsRet.raised = "none") =>
        \A other \in RegionLists :
            {other[i] : i \in DOMAIN other} = {regionsArg[i] : i \in DOMAIN regionsArg}
                => _regions(other, nArg).value = regionsRet.value

\* C7: BiggestTissueBoxMask on a slide whose tissue mask has no region raises
\* the error of _regions and returns no mask.
C7_BlankSlideRaises ==
    (/\ Returned /\ ret.self.cls = "BiggestTissueBoxMask"
     /\ regions_from_binary_mask(TissueFilters(ret.slide)) = <<>>) =>
        /\ ret.raised = "ValueError"
        /\ ret.value = <<>>
        /\ ~ret.hit

C7_Witness ==
    /\ Returned /\ ret.self.cls = "BiggestTissueBoxMask"
    /\ TissueFilters(ret.slide) = <<0, 0, 0, 0>>
    /\ ret.raised = "ValueError"

\* C8: on a tile of zero pixels NucleiScorer raises nothing and returns 0.
C8_ZeroAreaScoresZero ==
    (scoreRet # ScorePending /\ Len(tile.raw) = 0) =>
        /\ scoreRet.raised = "none"
        /\ scoreRet.num = 0

\* C9: on a tile with pixels the score is nucleiRatio * tanh(tissueRatio),
\* nucleiRatio = count(raw and not clean) / pixels; it is in [0, 1), and it is
\* 0 when tissueRatio = 0 and when the raw and the cleaned mask are the same.
C9_ScoreFormulaAndRange ==
    (scoreRet # ScorePending /\ Len(tile.raw) > 0) =>
        LET count == Cardinality({i \in DOMAIN tile.raw :
                                    tile.raw[i] = 1 /\ tile.clean[i] = 0})
            th == tanh(tile.tissue)
        IN  /\ scoreRet.raised = "none"
            /\ scoreRet.num = count * th.num
            /\ scoreRet.den = Len(tile.raw) * th.den
            /\ 0 <= scoreRet.num /\ scoreRet.num < scoreRet.den
            /\ tile.tissue = 0 => scoreRet.num = 0
            /\ tile.raw = tile.clean => scoreRet.num = 0

\* every pixel is nuclei signal and the tile is all tissue
C9_Witness ==
    /\ scoreRet # ScorePending /\ scoreRet.raised = "none"
    /\ Len(tile.raw) = MaxPixels
    /\ \A i \in DOMAIN tile.raw : tile.raw[i] = 1 /\ tile.clean[i] = 0
    /\ tile.tissue = TissueSteps
    /\ scoreRet.num > 0

\* C10: a call that raises leaves the cache as it was and stores no entry for
\* its key; a key whose call raised is never cached, so the next call for it
\* runs the pipeline again and raises again.
C10_FailureNotMemoized ==
    [][ /\ \A t \in Threads :
            /\ (pc[t] = "idle" /\ pc'[t] = "computing") => cache' = cache
            /\ (pc[t] = "computing" /\ pc'[t] = "idle" /\ ret'.raised # "none") =>
                  /\ cache' = cache
                  /\ runs' = runs
        /\ ret'.raised # "none" => ~RetCached'
        /\ (ret.raised # "none" /\ ret'.self = ret.self /\ ret'.slide = ret.slide) =>
              (~ret'.hit /\ ret'.raised = ret.raised)
      ]_vars

\* after a call that raised, a later call for the same key is running the
\* pipeline again
C10_Witness ==
    /\ ret.raised = "ValueError"
    /\ \E t \in Threads : pc[t] = "computing" /\ CallKey(t) = RetKey

====
